---- MODULE Spec2Model ----
(***************************************************************************)
(* Remote command execution of optima-ops-core (src/.../ssh.rs): the       *)
(* command validation policy (validate_command) and the SSH client that    *)
(* runs a command only after the policy accepted it.                       *)
(*                                                                         *)
(* Strings are sequences of one-character strings, so that trim,           *)
(* to_lowercase, contains, starts_with and replace are computed character  *)
(* by character as the Rust standard library computes them.  The Chinese   *)
(* message literals of the source are rendered by ASCII stand-ins, one     *)
(* per literal.                                                            *)
(***************************************************************************)
EXTENDS Integers, Sequences, FiniteSets, TLC

VARIABLES
    cmd,         \* the command string under validation
    validation,  \* result of validate_command(cmd), or NotYet
    checked,     \* result of the safety check of execute_command on cmd, or NotYet
    session,     \* SSHClient.session: None or Some(Session)
    last,        \* the last call on the client: method, arguments, result
    io,          \* the steps the last call performed, in order
    output,      \* the text handed to parse_container_status
    containers,  \* None, or Some(parse_container_status(output))
    current_env,      \* AppStateInner.current_env
    ssh_client,       \* AppStateInner.ssh_client: None or Some(SSHClient)
    ssh_client_lock,  \* the task holding the guard of the ssh_client mutex, if any
    tasks             \* the dashboard's tasks: what each runs and where it is

\* The variables of the parser.
parseVars == <<output, containers>>

\* The variables of the dashboard.
webVars == <<current_env, ssh_client, ssh_client_lock, tasks>>

\* The variables the dashboard's tasks leave alone.
otherVars == <<cmd, validation, checked, session, last, io, output, containers>>

vars ==
    <<cmd, validation, checked, session, last, io, output, containers,
      current_env, ssh_client, ssh_client_lock, tasks>>

(***************************************************************************)
(* The three command lists, ssh.rs lines 14-69, in source order.           *)
(***************************************************************************)
READONLY_COMMANDS ==
    << <<"d", "o", "c", "k", "e", "r", " ", "p", "s">>,
       <<"d", "o", "c", "k", "e", "r", " ", "l", "o", "g", "s">>,
       <<"d", "o", "c", "k", "e", "r", " ", "i", "n", "s", "p", "e", "c", "t">>,
       <<"d", "o", "c", "k", "e", "r", " ", "s", "t", "a", "t", "s">>,
       <<"d", "o", "c", "k", "e", "r", " ", "n", "e", "t", "w", "o", "r", "k">>,
       <<"d", "o", "c", "k", "e", "r", " ", "i", "m", "a", "g", "e", "s">>,
       <<"d", "o", "c", "k", "e", "r", " ", "e", "x", "e", "c">>,
       <<"i", "p", " ">>,
       <<"i", "p", "-">>,
       <<"d", "f", " ", "-", "h">>,
       <<"d", "f", " ", "-", "B", "G">>,
       <<"f", "r", "e", "e", " ", "-", "h">>,
       <<"f", "r", "e", "e", " ", "-", "m">>,
       <<"s", "y", "s", "t", "e", "m", "c", "t", "l", " ", "s", "t", "a", "t", "u", "s">>,
       <<"s", "y", "s", "t", "e", "m", "c", "t", "l", " ", "s", "h", "o", "w">>,
       <<"s", "y", "s", "t", "e", "m", "c", "t", "l", " ", "l", "i", "s", "t", "-", "u", "n", "i", "t", "s">>,
       <<"j", "o", "u", "r", "n", "a", "l", "c", "t", "l">>,
       <<"c", "a", "t">>,
       <<"g", "r", "e", "p">>,
       <<"l", "s">>,
       <<"f", "i", "n", "d">>,
       <<"t", "a", "i", "l">>,
       <<"h", "e", "a", "d">>,
       <<"e", "c", "h", "o">>,
       <<"p", "w", "d">>,
       <<"w", "h", "o", "a", "m", "i">>,
       <<"u", "p", "t", "i", "m", "e">>,
       <<"d", "a", "t", "e">>,
       <<"w", "c">>,
       <<"c", "u", "r", "l">>,
       <<"e", "c", "2", "-", "m", "e", "t", "a", "d", "a", "t", "a">>,
       <<"c", "u", "t">> >>

LOWRISK_COMMANDS ==
    << <<"d", "o", "c", "k", "e", "r", "-", "c", "o", "m", "p", "o", "s", "e", " ", "r", "e", "s", "t", "a", "r", "t">>,
       <<"d", "o", "c", "k", "e", "r", " ", "r", "e", "s", "t", "a", "r", "t">>,
       <<"s", "y", "s", "t", "e", "m", "c", "t", "l", " ", "r", "e", "s", "t", "a", "r", "t">> >>

DANGEROUS_COMMANDS ==
    << <<"r", "m", " ">>,
       <<"d", "o", "c", "k", "e", "r", " ", "r", "m">>,
       <<"d", "o", "c", "k", "e", "r", " ", "s", "y", "s", "t", "e", "m", " ", "p", "r", "u", "n", "e">>,
       <<"d", "o", "c", "k", "e", "r", " ", "v", "o", "l", "u", "m", "e", " ", "r", "m">>,
       <<"k", "i", "l", "l", " ">>,
       <<"s", "h", "u", "t", "d", "o", "w", "n">>,
       <<"r", "e", "b", "o", "o", "t">>,
       <<"p", "o", "w", "e", "r", "o", "f", "f">>,
       <<" ", ">", " ">>,
       <<" ", ">", ">", " ">>,
       <<";">>,
       <<"&", "&">>,
       <<"|", "|">> >>

(***************************************************************************)
(* Message literals.  The source's literals are Chinese; each is one       *)
(* element of the message sequence here.                                   *)
(*   MSG_DANGEROUS       ssh.rs:86, 98   "命令包含危险操作: "              *)
(*   MSG_NOT_WHITELISTED ssh.rs:124      "命令未在白名单中"                *)
(*   MSG_BLOCKED         ssh.rs:213      "命令被安全策略阻止: "            *)
(***************************************************************************)
MSG_DANGEROUS == "dangerous operation: "

MSG_NOT_WHITELISTED == "command not in whitelist"

MSG_BLOCKED == "blocked by safety policy: "

\* Option<String>: None and Some(s).
None == <<>>

Some(s) == <<s>>

\* The element of a one-element set.  { e(x) : x \in {v} } binds x to the
\* value of v, so that v is computed once however often e uses it.
Once(S) == CHOOSE r \in S : TRUE

\* Option::unwrap_or_default on Option<String>: the string, or "".
UnwrapOrDefault(opt) == IF opt = None THEN <<>> ELSE opt[1]

(***************************************************************************)
(* String primitives of the Rust standard library, on character sequences. *)
(***************************************************************************)
\* char::is_whitespace, restricted to the characters of the model.
WhiteSpace == {" ", "\t", "\n", "\r"}

UpperCase ==
    <<"A", "B", "C", "D", "E", "F", "G", "H", "I", "J", "K", "L", "M",
      "N", "O", "P", "Q", "R", "S", "T", "U", "V", "W", "X", "Y", "Z">>

LowerCase ==
    <<"a", "b", "c", "d", "e", "f", "g", "h", "i", "j", "k", "l", "m",
      "n", "o", "p", "q", "r", "s", "t", "u", "v", "w", "x", "y", "z">>

\* The character U+017F, LATIN SMALL LETTER LONG S: a lower-case letter that
\* is not ASCII.  Its lower-case mapping is itself and its upper-case mapping
\* is "S".
LONG_S == "U+017F"

\* char::to_lowercase on the characters of the model: an upper-case letter
\* maps to its lower-case letter, every other character to itself.
UpperSet == {UpperCase[i] : i \in 1..Len(UpperCase)}

LowerOf ==
    [c \in UpperSet |-> LowerCase[CHOOSE i \in 1..Len(UpperCase) : UpperCase[i] = c]]

LowerChar(c) == IF c \in UpperSet THEN LowerOf[c] ELSE c

\* str::to_lowercase
ToLowercase(str) == Once({ [i \in 1..Len(s) |-> LowerChar(s[i])] : s \in {str} })

\* str::trim: the slice without its leading and its trailing white space.
\* first is the index of the first character that is not white space, drop
\* the number of white-space characters at the end.
Trim(str) ==
    Once({ IF \A i \in 1..Len(s) : s[i] \in WhiteSpace THEN <<>>
           ELSE LET first == CHOOSE i \in 1..Len(s) :
                                 /\ s[i] \notin WhiteSpace
                                 /\ \A k \in 1..(i - 1) : s[k] \in WhiteSpace
                    drop == CHOOSE e \in 0..(Len(s) - 1) :
                                 /\ s[Len(s) - e] \notin WhiteSpace
                                 /\ \A k \in 0..(e - 1) : s[Len(s) - k] \in WhiteSpace
                IN  SubSeq(s, first, Len(s) - drop)
           : s \in {str} })

\* str::starts_with(&str)
StartsWith(str, prefix) ==
    \/ prefix = <<>>
    \/ /\ Len(prefix) <= Len(str)
       /\ str[1] = prefix[1]
       /\ SubSeq(str, 1, Len(prefix)) = prefix

\* str::contains(&str)
Contains(str, sub) ==
    \/ sub = <<>>
    \/ \E i \in 1..(Len(str) - Len(sub) + 1) :
           str[i] = sub[1] /\ SubSeq(str, i, i + Len(sub) - 1) = sub

\* str::contains(char)
ContainsChar(s, c) == \E i \in 1..Len(s) : s[i] = c

RECURSIVE ReplaceFrom(_, _, _, _)
\* The rest of str::replace from index i on: up to the next occurrence of
\* `from` at or after i the text is kept, the occurrence is replaced by `to`,
\* and the search goes on behind it (so the matches do not overlap).
ReplaceFrom(s, i, from, to) ==
    LET found == {k \in i..(Len(s) - Len(from) + 1) :
                     s[k] = from[1] /\ SubSeq(s, k, k + Len(from) - 1) = from}
    IN  IF found = {} THEN SubSeq(s, i, Len(s))
        ELSE Once({ SubSeq(s, i, k - 1) \o to \o ReplaceFrom(s, k + Len(from), from, to)
                    : k \in {CHOOSE m \in found : \A n \in found : m <= n} })

\* str::replace(from: &str, to: &str): every occurrence of the literal string
\* `from` is replaced by `to`.
Replace(str, from, to) == Once({ ReplaceFrom(s, 1, from, to) : s \in {str} })

\* The two string literals handed to replace at ssh.rs:93-94.  They are the
\* raw strings r#""[^"]*""# and r"'[^']*'": str::replace takes them as literal
\* text, not as regular expressions.
DoubleQuotedPattern == <<"\"", "[", "^", "\"", "]", "*", "\"">>

SingleQuotedPattern == <<"'", "[", "^", "'", "]", "*", "'">>

(***************************************************************************)
(* validate_command, ssh.rs:78-126                                         *)
(***************************************************************************)
\* struct CommandValidation { safe, reason }
CommandValidation(safe, reason) == [safe |-> safe, reason |-> reason]

RECURSIVE FirstContained(_, _, _)
\* The loop `for dangerous in DANGEROUS_COMMANDS { if cmd_lower.contains(..) }`:
\* the index of the first entry of list, from i on, that s contains; 0 if none.
FirstContained(s, list, i) ==
    IF i > Len(list) THEN 0
    ELSE IF Contains(s, list[i]) THEN i
    ELSE Once({ FirstContained(s, list, n) : n \in {i + 1} })

RECURSIVE FirstPrefix(_, _, _)
\* The loops `for p in LIST { if cmd_lower.starts_with(p) }`: the index of
\* the first entry of list, from i on, that s starts with; 0 if none.
FirstPrefix(s, list, i) ==
    IF i > Len(list) THEN 0
    ELSE IF StartsWith(s, list[i]) THEN i
    ELSE Once({ FirstPrefix(s, list, n) : n \in {i + 1} })

\* ssh.rs:92-94
OutsideQuotes(command) ==
    Replace(Replace(command, DoubleQuotedPattern, <<>>), SingleQuotedPattern, <<>>)

RECURSIVE StripQuoted(_, _, _)
\* s from index i on, without its substrings q...q (a quote character q, any
\* characters other than q, the next q), taken left to right.
StripQuoted(s, i, q) ==
    LET open == {k \in i..Len(s) : s[k] = q}
    IN  IF Cardinality(open) < 2 THEN SubSeq(s, i, Len(s))
        ELSE Once({ SubSeq(s, i, a - 1)
                        \o StripQuoted(s, 1 + (CHOOSE b \in open \ {a} :
                                                   \A n \in open \ {a} : b <= n), q)
                    : a \in {CHOOSE m \in open : \A n \in open : m <= n} })

\* s without its double-quoted and then its single-quoted substrings.
Unquoted(s) ==
    Once({ StripQuoted(t, 1, "'") : t \in {StripQuoted(s, 1, "\"")} })

\* validate_command with the whitelist loops moved before the dangerous loop.
validate_command_whitelist_first(command) ==
    Once({ LET d == FirstContained(cmd_lower, DANGEROUS_COMMANDS, 1)
           IN  IF FirstPrefix(cmd_lower, READONLY_COMMANDS, 1) # 0
               THEN CommandValidation(TRUE, None)
               ELSE IF FirstPrefix(cmd_lower, LOWRISK_COMMANDS, 1) # 0
               THEN CommandValidation(TRUE, None)
               ELSE IF d # 0
               THEN CommandValidation(FALSE, Some(<<MSG_DANGEROUS>> \o DANGEROUS_COMMANDS[d]))
               ELSE IF ContainsChar(outside_quotes, "|")
               THEN CommandValidation(FALSE, Some(<<MSG_DANGEROUS, "|">>))
               ELSE CommandValidation(FALSE, Some(<<MSG_NOT_WHITELISTED>>))
           : cmd_lower \in {ToLowercase(Trim(command))},
             outside_quotes \in {OutsideQuotes(command)} })

\* validate_command without the pipe check.
validate_command_no_pipe_check(command) ==
    Once({ LET d == FirstContained(cmd_lower, DANGEROUS_COMMANDS, 1)
           IN  IF d # 0
               THEN CommandValidation(FALSE, Some(<<MSG_DANGEROUS>> \o DANGEROUS_COMMANDS[d]))
               ELSE IF FirstPrefix(cmd_lower, READONLY_COMMANDS, 1) # 0
               THEN CommandValidation(TRUE, None)
               ELSE IF FirstPrefix(cmd_lower, LOWRISK_COMMANDS, 1) # 0
               THEN CommandValidation(TRUE, None)
               ELSE CommandValidation(FALSE, Some(<<MSG_NOT_WHITELISTED>>))
           : cmd_lower \in {ToLowercase(Trim(command))} })

\* validate_command reporting the dangerous entry it was told to look for
\* last instead of the one that matched: the reason always names the last
\* entry of the list.
validate_command_wrong_reason(command) ==
    Once({ LET d == FirstContained(cmd_lower, DANGEROUS_COMMANDS, 1)
           IN  IF d # 0
               THEN CommandValidation(FALSE,
                        Some(<<MSG_DANGEROUS>> \o DANGEROUS_COMMANDS[Len(DANGEROUS_COMMANDS)]))
               ELSE IF ContainsChar(outside_quotes, "|")
               THEN CommandValidation(FALSE, Some(<<MSG_DANGEROUS, "|">>))
               ELSE IF FirstPrefix(cmd_lower, READONLY_COMMANDS, 1) # 0
               THEN CommandValidation(TRUE, None)
               ELSE IF FirstPrefix(cmd_lower, LOWRISK_COMMANDS, 1) # 0
               THEN CommandValidation(TRUE, None)
               ELSE CommandValidation(FALSE, Some(<<MSG_NOT_WHITELISTED>>))
           : cmd_lower \in {ToLowercase(Trim(command))},
             outside_quotes \in {OutsideQuotes(command)} })

\* validate_command matching on the trimmed command without lower-casing it.
validate_command_case_sensitive(command) ==
    Once({ LET d == FirstContained(cmd_lower, DANGEROUS_COMMANDS, 1)
           IN  IF d # 0
               THEN CommandValidation(FALSE, Some(<<MSG_DANGEROUS>> \o DANGEROUS_COMMANDS[d]))
               ELSE IF ContainsChar(outside_quotes, "|")
               THEN CommandValidation(FALSE, Some(<<MSG_DANGEROUS, "|">>))
               ELSE IF FirstPrefix(cmd_lower, READONLY_COMMANDS, 1) # 0
               THEN CommandValidation(TRUE, None)
               ELSE IF FirstPrefix(cmd_lower, LOWRISK_COMMANDS, 1) # 0
               THEN CommandValidation(TRUE, None)
               ELSE CommandValidation(FALSE, Some(<<MSG_NOT_WHITELISTED>>))
           : cmd_lower \in {Trim(command)},
             outside_quotes \in {OutsideQuotes(command)} })

\* validate_command looking for the dangerous entries outside of quoted
\* substrings only.
validate_command_quote_aware(command) ==
    Once({ LET d == FirstContained(Unquoted(cmd_lower), DANGEROUS_COMMANDS, 1)
           IN  IF d # 0
               THEN CommandValidation(FALSE, Some(<<MSG_DANGEROUS>> \o DANGEROUS_COMMANDS[d]))
               ELSE IF ContainsChar(outside_quotes, "|")
               THEN CommandValidation(FALSE, Some(<<MSG_DANGEROUS, "|">>))
               ELSE IF FirstPrefix(cmd_lower, READONLY_COMMANDS, 1) # 0
               THEN CommandValidation(TRUE, None)
               ELSE IF FirstPrefix(cmd_lower, LOWRISK_COMMANDS, 1) # 0
               THEN CommandValidation(TRUE, None)
               ELSE CommandValidation(FALSE, Some(<<MSG_NOT_WHITELISTED>>))
           : cmd_lower \in {ToLowercase(Trim(command))},
             outside_quotes \in {OutsideQuotes(command)} })

validate_command(command) ==
    Once({ LET d == FirstContained(cmd_lower, DANGEROUS_COMMANDS, 1)
           IN  IF d # 0
               THEN CommandValidation(FALSE, Some(<<MSG_DANGEROUS>> \o DANGEROUS_COMMANDS[d]))
               ELSE IF ContainsChar(outside_quotes, "|")
               THEN CommandValidation(FALSE, Some(<<MSG_DANGEROUS, "|">>))
               ELSE IF FirstPrefix(cmd_lower, READONLY_COMMANDS, 1) # 0
               THEN CommandValidation(TRUE, None)
               ELSE IF FirstPrefix(cmd_lower, LOWRISK_COMMANDS, 1) # 0
               THEN CommandValidation(TRUE, None)
               ELSE CommandValidation(FALSE, Some(<<MSG_NOT_WHITELISTED>>))
           : cmd_lower \in {ToLowercase(Trim(command))},
             outside_quotes \in {OutsideQuotes(command)} })

(***************************************************************************)
(* The safety check of execute_command, ssh.rs:208-217: the error it       *)
(* returns, or Pass when execution goes on.                                *)
(***************************************************************************)
Pass == [kind |-> "Pass"]

OpsCLIError(kind, msg) == [kind |-> kind, msg |-> msg]

safety_check(command, validate_safety) ==
    IF validate_safety
    THEN Once({ IF ~v.safe
                THEN OpsCLIError("CommandExecution",
                                 <<MSG_BLOCKED>> \o UnwrapOrDefault(v.reason))
                ELSE Pass
                : v \in {validate_command(command)} })
    ELSE Pass

(***************************************************************************)
(* Inputs of the validation specification: every concatenation of at most  *)
(* MaxFrags fragments.                                                     *)
(***************************************************************************)
MaxFrags == 2

Fragments ==
    { <<"d", "o", "c", "k", "e", "r", " ", "p", "s">>,
      <<"d", "o", "c", "k", "e", "r", "-", "c", "o", "m", "p", "o", "s", "e", " ", "r", "e", "s", "t", "a", "r", "t", " ", "w", "e", "b">>,
      <<"l", "s">>,
      <<"g", "r", "e", "p", " ">>,
      <<"b", "a", "n", "a", "n", "a">>,
      <<"s", "u", "d", "o", " ", "r", "e", "b", "o", "o", "t">>,
      <<"d", "f", " ", "-", "B", "G">>,
      <<";", " ", "r", "m", " ", "-", "r", "f", " ", "/">>,
      <<" ", "&", "&", " ">>,
      <<" ", "|", "|", " ">>,
      <<" ", "|", " ">>,
      <<"\"", "a", "|", "b", "\"">>,
      <<"'", "a", "|", "b", "'">>,
      <<" ", ">", " ", "f">>,
      <<" ", ">", ">", " ", "f">>,
      <<" ", ">", "f">>,
      <<"o", "f">>,
      <<" ">>,
      <<"\t">>,
      <<"R", "M", " ", "-", "R", "F", " ", "/">>,
      <<"D", "O", "C", "K", "E", "R", " ", "P", "S">>,
      <<"\"", "[", "^", "\"", "]", "*", "\"">>,
      <<"k", "i", "l", "l", " ", "1">>,
      <<"d", "o", "c", "k", "e", "r", " ", "r", "m", " ", "x">>,
      <<" ", LONG_S, "h", "u", "t", "d", "o", "w", "n">>,
      <<"\"", "a", ";", "b", "\"">> }

RECURSIVE Concats(_)
Concats(n) ==
    IF n = 0 THEN {<<>>}
    ELSE LET shorter == Concats(n - 1)
         IN  shorter \cup {s \o f : s \in shorter, f \in Fragments}

Commands == Concats(MaxFrags)

NotYet == [kind |-> "NotYet"]

MaxTasks == 2

\* The tasks of the dashboard's runtime, each running one request at a time.
Tasks == 1..MaxTasks

\* Two of the four values of Environment, config.rs:19-24.
Environments == {"production", "stage"}

DefaultEnvironment == "production"

\* A task that runs no request.
Idle == [pc |-> "idle"]

\* AppState::new, state.rs:21-30: the environment of the configuration, no
\* client, the mutex unlocked.
AppState_new(env) ==
    /\ current_env = env
    /\ ssh_client = None
    /\ ssh_client_lock = None
    /\ tasks = [t \in Tasks |-> Idle]

InitValidate ==
    /\ cmd \in Commands
    /\ validation = NotYet
    /\ checked = NotYet
    /\ session = None
    /\ last = [op |-> "new"]
    /\ io = <<>>
    /\ output = <<>>
    /\ containers = None
    /\ AppState_new(DefaultEnvironment)

\* A call validate_command(cmd).
Validate ==
    /\ validation' = validate_command(cmd)
    /\ UNCHANGED <<cmd, checked, session, last, io, parseVars, webVars>>

\* The safety check of a call execute_command(cmd, validate_safety, _).
Check(validate_safety) ==
    /\ checked' = [validate_safety |-> validate_safety,
                   result |-> safety_check(cmd, validate_safety)]
    /\ UNCHANGED <<cmd, validation, session, last, io, parseVars, webVars>>

NextValidate ==
    \/ Validate
    \/ \E validate_safety \in BOOLEAN : Check(validate_safety)

SpecValidate == InitValidate /\ [][NextValidate]_vars

(***************************************************************************)
(* The parser of `docker ps` output, ssh.rs:317-335.                       *)
(***************************************************************************)
RECURSIVE LinesFrom(_, _)
\* str::lines from index i on: the text is cut after every "\n"; a piece
\* loses its final "\n" and then, only if it had one, a final "\r".  There
\* is no line after a final "\n".
LinesFrom(str, i) ==
    IF i > Len(str) THEN <<>>
    ELSE LET nls == {k \in i..Len(str) : str[k] = "\n"}
         IN  IF nls = {} THEN <<SubSeq(str, i, Len(str))>>
             ELSE LET e == CHOOSE k \in nls : \A n \in nls : k <= n
                      r == IF e > i /\ str[e - 1] = "\r" THEN e - 2 ELSE e - 1
                  IN  <<SubSeq(str, i, r)>> \o LinesFrom(str, e + 1)

\* output.lines(), ssh.rs:319.
Lines(str) == LinesFrom(str, 1)

RECURSIVE SplitFrom(_, _, _)
\* str::split(sep) from index i on: the pieces between the separators, one
\* more than there are separators.
SplitFrom(str, sep, i) ==
    LET seps == {k \in i..Len(str) : str[k] = sep}
    IN  IF seps = {} THEN <<SubSeq(str, i, Len(str))>>
        ELSE LET e == CHOOSE k \in seps : \A n \in seps : k <= n
             IN  <<SubSeq(str, i, e - 1)>> \o SplitFrom(str, sep, e + 1)

\* line.split('\t').collect(), ssh.rs:322.
Split(str, sep) == SplitFrom(str, sep, 1)

\* ContainerStatus { id, name, status, ports }, ssh.rs:309-314.
ContainerStatus(id, name, status, ports) ==
    [id |-> id, name |-> name, status |-> status, ports |-> ports]

\* The closure of filter_map, ssh.rs:321-333: Some(record) or None.
ParseLine(line) ==
    LET parts == Split(line, "\t")
    IN  IF Len(parts) >= 3
        THEN Some(ContainerStatus(parts[1], parts[2], parts[3],
                                  IF Len(parts) >= 4 THEN parts[4] ELSE <<>>))
        ELSE None

RECURSIVE Collect(_, _)
\* filter(..).filter_map(..).collect() over lines from index i on,
\* ssh.rs:320-334.
Collect(lines, i) ==
    IF i > Len(lines) THEN <<>>
    ELSE (IF Trim(lines[i]) # <<>> THEN ParseLine(lines[i]) ELSE None)
             \o Collect(lines, i + 1)

RECURSIVE CollectAll(_, _)
\* filter_map(..).collect() without the filter of blank lines.
CollectAll(lines, i) ==
    IF i > Len(lines) THEN <<>>
    ELSE ParseLine(lines[i]) \o CollectAll(lines, i + 1)

\* parse_container_status keeping the whitespace-only lines.
parse_container_status_keep_blank(out) == CollectAll(Lines(out), 1)

\* parse_container_status, ssh.rs:317-335.
parse_container_status(out) == Collect(Lines(out), 1)

MaxParseFrags == 4

\* Pieces of `docker ps` output: three fields, a further field, the line
\* ends, white space and a field character.
ParseFragments ==
    { <<"a", "\t", "b", "\t", "c">>, <<"\t", "d">>, <<"\n">>, <<"\r", "\n">>,
      <<" ">>, <<"\t">>, <<"x">>, <<"\r">> }

RECURSIVE ParseConcats(_)
ParseConcats(n) ==
    IF n = 0 THEN {<<>>}
    ELSE LET shorter == ParseConcats(n - 1)
         IN  shorter \cup {s \o f : s \in shorter, f \in ParseFragments}

Outputs == ParseConcats(MaxParseFrags)

InitParse ==
    /\ output \in Outputs
    /\ containers = None
    /\ cmd = <<>>
    /\ validation = NotYet
    /\ checked = NotYet
    /\ session = None
    /\ last = [op |-> "new"]
    /\ io = <<>>
    /\ AppState_new(DefaultEnvironment)

\* A call parse_container_status(output).
Parse ==
    /\ containers = None
    /\ containers' = Some(parse_container_status(output))
    /\ UNCHANGED <<cmd, validation, checked, session, last, io, output, webVars>>

NextParse == Parse

SpecParse == InitParse /\ [][NextParse]_vars

DOCKER_PREFIX == <<"d", "o", "c", "k", "e", "r", " ">>

FILTER_PREFIX == <<" ", "-", "-", "f", "i", "l", "t", "e", "r", " ", "\"", "n", "a", "m", "e", "=">>

FILTER_SUFFIX == <<"\"">>

PS_PREFIX == <<"p", "s", " ", "-", "a">>

PS_FORMAT == <<" ", "-", "-", "f", "o", "r", "m", "a", "t", " ", "\"", "{", "{", ".", "I", "D", "}", "}", "\\", "t", "{", "{", ".", "N", "a", "m", "e", "s", "}", "}", "\\", "t", "{", "{", ".", "S", "t", "a", "t", "u", "s", "}", "}", "\\", "t", "{", "{", ".", "P", "o", "r", "t", "s", "}", "}", "\"">>

TAIL_PREFIX == <<"-", "-", "t", "a", "i", "l", " ">>

FOLLOW_FLAG == <<"-", "f">>

LOGS_PREFIX == <<"l", "o", "g", "s", " ">>

Digits == <<"0", "1", "2", "3", "4", "5", "6", "7", "8", "9">>

ClientCommands ==
    { <<"d", "o", "c", "k", "e", "r", " ", "p", "s">>,
      <<"d", "o", "c", "k", "e", "r", " ", "p", "s", ";", " ", "r", "m", " ", "-", "r", "f", " ", "/">>,
      <<"b", "a", "n", "a", "n", "a">>,
      <<"d", "o", "c", "k", "e", "r", " ", "l", "o", "g", "s", " ", "c", "1", " ", "|", " ", "g", "r", "e", "p", " ", "f", "o", "o">>,
      <<"g", "r", "e", "p", " ", "\"", "a", "|", "b", "\"", " ", "f", "i", "l", "e">>,
      <<"d", "o", "c", "k", "e", "r", " ", "r", "e", "s", "t", "a", "r", "t", " ", "w", "e", "b">>,
      <<" ", "D", "o", "c", "k", "e", "r", " ", "P", "S", " ">> }

DockerArgs ==
    { <<"p", "s">>,
      <<"r", "e", "s", "t", "a", "r", "t", " ", "w", "e", "b">>,
      <<"r", "e", "s", "t", "a", "r", "t", " ", "a", ";", "b">>,
      <<"r", "m", " ", "x">> }

ContainerNames ==
    { <<"w", "e", "b">>,
      <<"a", ";", "b">> }

(***************************************************************************)
(* SSHClient, ssh.rs:139-303.  The session field is an Option<Session>.    *)
(* The steps of connect() and of execute_command() that touch the outside  *)
(* world are recorded, in the order the code performs them, in io.         *)
(***************************************************************************)
\* An ssh2::Session: whether its handshake has completed and whether it is
\* authenticated (what sess.authenticated() returns).
SessionOf(handshake, authenticated) ==
    [handshake |-> handshake, authenticated |-> authenticated]

\* The session that connect() stores at ssh.rs:187: handshake() returned Ok
\* (ssh.rs:177-178) and authenticated() returned true (ssh.rs:184).
Session == SessionOf(TRUE, TRUE)

\* Result<(), _>::Ok(())
OkUnit == [kind |-> "Ok"]

\* The fallible steps of connect(), ssh.rs:162-183, in order.
ConnectSteps ==
    <<"read_key", "tcp_connect", "set_read_timeout", "session_new",
      "handshake", "userauth_pubkey_memory", "authenticated">>

\* The fallible steps of execute_command() on the session, ssh.rs:227-253.
ExecSteps ==
    <<"channel_session", "exec", "read_stdout", "read_stderr",
      "wait_close", "exit_status">>

\* The steps that are network I/O: everything on the TCP stream, the session
\* or a channel.  (read_key reads a local file, session_new allocates,
\* authenticated reads a flag of the local session object.)
NetworkSteps ==
    {"tcp_connect", "set_read_timeout", "handshake", "userauth_pubkey_memory",
     "channel_session", "exec", "read_stdout", "read_stderr", "wait_close",
     "exit_status", "session_disconnect"}

\* The error a failing step of connect() is mapped to.  get_ssh_private_key
\* (config.rs:248-252) returns an anyhow error, which `?` converts by
\* From<anyhow::Error> into OpsCLIError::General (error.rs:32-33); every other
\* step is mapped to OpsCLIError::SSHConnection by map_err.
ConnectError(step) ==
    IF step = "read_key"
    THEN OpsCLIError("General", <<"Failed to read SSH key", "cause">>)
    ELSE IF step = "authenticated"
    THEN OpsCLIError("SSHConnection", <<"SSH authentication failed">>)
    ELSE OpsCLIError("SSHConnection", <<step, " failed: ", "cause">>)

\* The error a failing step of execute_command() is mapped to, ssh.rs:229-253.
ExecError(step) == OpsCLIError("CommandExecution", <<step, " failed: ", "cause">>)

\* connect storing the session without the authenticated() check.
connect_unchecked(sess, failAt) ==
    IF sess # None
    THEN [session |-> sess, result |-> OkUnit, io |-> <<>>]
    ELSE IF failAt = 0
    THEN [session |-> Some(Session), result |-> OkUnit, io |-> ConnectSteps]
    ELSE IF ConnectSteps[failAt] = "authenticated"
    THEN [session |-> Some(SessionOf(TRUE, FALSE)), result |-> OkUnit,
          io |-> ConnectSteps]
    ELSE [session |-> None,
          result |-> ConnectError(ConnectSteps[failAt]),
          io |-> SubSeq(ConnectSteps, 1, failAt)]

\* connect without the early return for a client that has a session.
connect_reconnecting(sess, failAt) ==
    IF failAt = 0
    THEN [session |-> Some(Session), result |-> OkUnit, io |-> ConnectSteps]
    ELSE [session |-> None,
          result |-> ConnectError(ConnectSteps[failAt]),
          io |-> SubSeq(ConnectSteps, 1, failAt)]

\* SSHClient::connect, ssh.rs:156-189.  failAt is the step that fails, 0 for
\* none.  The outcome: the new session field, the result and the steps taken.
connect(sess, failAt) ==
    IF sess # None
    THEN [session |-> sess, result |-> OkUnit, io |-> <<>>]
    ELSE IF failAt = 0
    THEN [session |-> Some(Session), result |-> OkUnit, io |-> ConnectSteps]
    ELSE [session |-> None,
          result |-> ConnectError(ConnectSteps[failAt]),
          io |-> SubSeq(ConnectSteps, 1, failAt)]

\* disconnect giving the session up only when the close succeeded.
disconnect_unless_close_fails(sess, closeFails) ==
    [session |-> IF sess # None /\ closeFails THEN sess ELSE None,
     result |-> OkUnit,
     io |-> IF sess # None THEN <<"session_disconnect">> ELSE <<>>,
     close |-> IF sess = None THEN "none" ELSE IF closeFails THEN "failed" ELSE "ok"]

\* SSHClient::disconnect, ssh.rs:192-197.  closeFails tells whether
\* sess.disconnect(..) returns an error; `let _ =` drops its result.  The
\* outcome records what became of the close: not attempted, ok or failed.
disconnect(sess, closeFails) ==
    [session |-> None,
     result |-> OkUnit,
     io |-> IF sess # None THEN <<"session_disconnect">> ELSE <<>>,
     close |-> IF sess = None THEN "none" ELSE IF closeFails THEN "failed" ELSE "ok"]

\* A drop that leaves the transport of the client as it is.
drop_without_disconnect(sess, closeFails) ==
    [session |-> sess, result |-> OkUnit, io |-> <<>>, close |-> "none"]

\* Drop for SSHClient, ssh.rs:299-303: drop() calls self.disconnect().
drop(sess, closeFails) == disconnect(sess, closeFails)

\* The exit status of a remote process that has not exited: none.
Running == None

\* A call that has not returned: it is blocked in a step on the channel.
Pending == [kind |-> "Pending"]

\* The step of execute_command() that blocks while the remote process runs:
\* read_to_string on the channel's stdout (ssh.rs:240-242) returns at the end
\* of the stream.  No timeout is set on the session, and the _timeout
\* parameter (ssh.rs:204) is not read.
BlockingStep == 3

\* What read_to_string collected from the channel's stdout and stderr
\* streams: the text is the remote side's, its content plays no part.
STDOUT == <<"o", "u", "t">>

STDERR == <<"e", "r", "r">>

\* Ok(SSHCommandResult { .. }), ssh.rs:256-262 (the duration is left out: no
\* claim reads it).
SSHCommandResult(command, exit_code) ==
    [kind |-> "Ok", stdout |-> STDOUT, stderr |-> STDERR,
     exit_code |-> exit_code, command |-> command]

\* execute_command ensuring the connection before the safety check.
execute_command_connect_first(sess, command, validate_safety, timeout, connectFail, execFail, exit_code) ==
    Once({ LET call == [command |-> command, validate_safety |-> validate_safety,
                        timeout |-> timeout]
               c == IF sess = None
                    THEN connect(sess, connectFail)
                    ELSE [session |-> sess, result |-> OkUnit, io |-> <<>>]
           IN  IF c.result # OkUnit
               THEN call @@ [session |-> c.session, result |-> c.result, io |-> c.io,
                             exec_arg |-> None]
               ELSE IF chk # Pass
               THEN call @@ [session |-> c.session, result |-> chk, io |-> c.io,
                             exec_arg |-> None]
               ELSE IF execFail = 0 /\ exit_code = Running
               THEN call @@ [session |-> c.session,
                             result |-> Pending,
                             io |-> c.io \o SubSeq(ExecSteps, 1, BlockingStep),
                             exec_arg |-> Some(command),
                             exited |-> FALSE]
               ELSE IF execFail = 0
               THEN call @@ [session |-> c.session,
                             result |-> SSHCommandResult(command, exit_code[1]),
                             io |-> c.io \o ExecSteps,
                             exec_arg |-> Some(command),
                             exited |-> TRUE]
               ELSE call @@ [session |-> c.session,
                             result |-> ExecError(ExecSteps[execFail]),
                             io |-> c.io \o SubSeq(ExecSteps, 1, execFail),
                             exec_arg |-> IF execFail >= 2 THEN Some(command) ELSE None]
           : chk \in {safety_check(command, validate_safety)} })

\* execute_command dropping the session when it rejects the command.
execute_command_reject_disconnects(sess, command, validate_safety, timeout, connectFail, execFail, exit_code) ==
    Once({ LET call == [command |-> command, validate_safety |-> validate_safety,
                        timeout |-> timeout]
               c == IF sess = None
                    THEN connect(sess, connectFail)
                    ELSE [session |-> sess, result |-> OkUnit, io |-> <<>>]
           IN  IF chk # Pass
               THEN call @@ [session |-> None, result |-> chk, io |-> <<>>,
                             exec_arg |-> None]
               ELSE IF c.result # OkUnit
               THEN call @@ [session |-> c.session, result |-> c.result, io |-> c.io,
                             exec_arg |-> None]
               ELSE IF execFail = 0 /\ exit_code = Running
               THEN call @@ [session |-> c.session,
                             result |-> Pending,
                             io |-> c.io \o SubSeq(ExecSteps, 1, BlockingStep),
                             exec_arg |-> Some(command),
                             exited |-> FALSE]
               ELSE IF execFail = 0
               THEN call @@ [session |-> c.session,
                             result |-> SSHCommandResult(command, exit_code[1]),
                             io |-> c.io \o ExecSteps,
                             exec_arg |-> Some(command),
                             exited |-> TRUE]
               ELSE call @@ [session |-> c.session,
                             result |-> ExecError(ExecSteps[execFail]),
                             io |-> c.io \o SubSeq(ExecSteps, 1, execFail),
                             exec_arg |-> IF execFail >= 2 THEN Some(command) ELSE None]
           : chk \in {safety_check(command, validate_safety)} })

\* execute_command trying connect() a second time when the first fails.
execute_command_connect_retry(sess, command, validate_safety, timeout, connectFail, execFail, exit_code) ==
    Once({ LET call == [command |-> command, validate_safety |-> validate_safety,
                        timeout |-> timeout]
               first == connect(sess, connectFail)
               c == IF sess # None
                    THEN [session |-> sess, result |-> OkUnit, io |-> <<>>]
                    ELSE IF first.result # OkUnit
                    THEN [session |-> Some(Session), result |-> OkUnit,
                          io |-> first.io \o ConnectSteps]
                    ELSE first
           IN  IF chk # Pass
               THEN call @@ [session |-> sess, result |-> chk, io |-> <<>>,
                             exec_arg |-> None]
               ELSE IF execFail = 0 /\ exit_code = Running
               THEN call @@ [session |-> c.session,
                             result |-> Pending,
                             io |-> c.io \o SubSeq(ExecSteps, 1, BlockingStep),
                             exec_arg |-> Some(command),
                             exited |-> FALSE]
               ELSE IF execFail = 0
               THEN call @@ [session |-> c.session,
                             result |-> SSHCommandResult(command, exit_code[1]),
                             io |-> c.io \o ExecSteps,
                             exec_arg |-> Some(command),
                             exited |-> TRUE]
               ELSE call @@ [session |-> c.session,
                             result |-> ExecError(ExecSteps[execFail]),
                             io |-> c.io \o SubSeq(ExecSteps, 1, execFail),
                             exec_arg |-> IF execFail >= 2 THEN Some(command) ELSE None]
           : chk \in {safety_check(command, validate_safety)} })

\* execute_command giving the session up when a step on the channel fails.
execute_command_drop_on_failure(sess, command, validate_safety, timeout, connectFail, execFail, exit_code) ==
    Once({ LET call == [command |-> command, validate_safety |-> validate_safety,
                        timeout |-> timeout]
               c == IF sess = None
                    THEN connect(sess, connectFail)
                    ELSE [session |-> sess, result |-> OkUnit, io |-> <<>>]
           IN  IF chk # Pass
               THEN call @@ [session |-> sess, result |-> chk, io |-> <<>>,
                             exec_arg |-> None]
               ELSE IF c.result # OkUnit
               THEN call @@ [session |-> c.session, result |-> c.result, io |-> c.io,
                             exec_arg |-> None]
               ELSE IF execFail = 0 /\ exit_code = Running
               THEN call @@ [session |-> c.session,
                             result |-> Pending,
                             io |-> c.io \o SubSeq(ExecSteps, 1, BlockingStep),
                             exec_arg |-> Some(command),
                             exited |-> FALSE]
               ELSE IF execFail = 0
               THEN call @@ [session |-> c.session,
                             result |-> SSHCommandResult(command, exit_code[1]),
                             io |-> c.io \o ExecSteps,
                             exec_arg |-> Some(command),
                             exited |-> TRUE]
               ELSE call @@ [session |-> None,
                             result |-> ExecError(ExecSteps[execFail]),
                             io |-> c.io \o SubSeq(ExecSteps, 1, execFail),
                             exec_arg |-> IF execFail >= 2 THEN Some(command) ELSE None]
           : chk \in {safety_check(command, validate_safety)} })

\* execute_command running and echoing the trimmed, lower-cased command.
execute_command_normalized(sess, command, validate_safety, timeout, connectFail, execFail, exit_code) ==
    Once({ LET call == [command |-> command, validate_safety |-> validate_safety,
                        timeout |-> timeout]
               c == IF sess = None
                    THEN connect(sess, connectFail)
                    ELSE [session |-> sess, result |-> OkUnit, io |-> <<>>]
               sent == ToLowercase(Trim(command))
           IN  IF chk # Pass
               THEN call @@ [session |-> sess, result |-> chk, io |-> <<>>,
                             exec_arg |-> None]
               ELSE IF c.result # OkUnit
               THEN call @@ [session |-> c.session, result |-> c.result, io |-> c.io,
                             exec_arg |-> None]
               ELSE IF execFail = 0 /\ exit_code = Running
               THEN call @@ [session |-> c.session,
                             result |-> Pending,
                             io |-> c.io \o SubSeq(ExecSteps, 1, BlockingStep),
                             exec_arg |-> Some(sent),
                             exited |-> FALSE]
               ELSE IF execFail = 0
               THEN call @@ [session |-> c.session,
                             result |-> SSHCommandResult(sent, exit_code[1]),
                             io |-> c.io \o ExecSteps,
                             exec_arg |-> Some(sent),
                             exited |-> TRUE]
               ELSE call @@ [session |-> c.session,
                             result |-> ExecError(ExecSteps[execFail]),
                             io |-> c.io \o SubSeq(ExecSteps, 1, execFail),
                             exec_arg |-> IF execFail >= 2 THEN Some(sent) ELSE None]
           : chk \in {safety_check(command, validate_safety)} })

\* execute_command returning what it has collected when a step after the
\* read of stdout fails.
execute_command_partial_result(sess, command, validate_safety, timeout, connectFail, execFail, exit_code) ==
    Once({ LET call == [command |-> command, validate_safety |-> validate_safety,
                        timeout |-> timeout]
               c == IF sess = None
                    THEN connect(sess, connectFail)
                    ELSE [session |-> sess, result |-> OkUnit, io |-> <<>>]
           IN  IF chk # Pass
               THEN call @@ [session |-> sess, result |-> chk, io |-> <<>>,
                             exec_arg |-> None]
               ELSE IF c.result # OkUnit
               THEN call @@ [session |-> c.session, result |-> c.result, io |-> c.io,
                             exec_arg |-> None]
               ELSE IF execFail = 0 /\ exit_code = Running
               THEN call @@ [session |-> c.session,
                             result |-> Pending,
                             io |-> c.io \o SubSeq(ExecSteps, 1, BlockingStep),
                             exec_arg |-> Some(command),
                             exited |-> FALSE]
               ELSE IF execFail = 0
               THEN call @@ [session |-> c.session,
                             result |-> SSHCommandResult(command, exit_code[1]),
                             io |-> c.io \o ExecSteps,
                             exec_arg |-> Some(command),
                             exited |-> TRUE]
               ELSE IF execFail > BlockingStep
               THEN call @@ [session |-> c.session,
                             result |-> SSHCommandResult(command, 0),
                             io |-> c.io \o SubSeq(ExecSteps, 1, execFail),
                             exec_arg |-> Some(command)]
               ELSE call @@ [session |-> c.session,
                             result |-> ExecError(ExecSteps[execFail]),
                             io |-> c.io \o SubSeq(ExecSteps, 1, execFail),
                             exec_arg |-> IF execFail >= 2 THEN Some(command) ELSE None]
           : chk \in {safety_check(command, validate_safety)} })

\* SSHClient::execute_command, ssh.rs:200-263.  connectFail and execFail are
\* the steps that fail (0 for none), exit_code the exit status of the remote
\* process, if it exits.  The outcome records the call (command, validate_safety), the new
\* session field, the result, the steps taken, the string handed to
\* channel.exec, if any, and, when no step failed, whether the remote
\* process exited.
execute_command(sess, command, validate_safety, timeout, connectFail, execFail, exit_code) ==
    Once({ LET call == [command |-> command, validate_safety |-> validate_safety,
                        timeout |-> timeout]
               c == IF sess = None
                    THEN connect(sess, connectFail)
                    ELSE [session |-> sess, result |-> OkUnit, io |-> <<>>]
           IN  IF chk # Pass
               THEN call @@ [session |-> sess, result |-> chk, io |-> <<>>,
                             exec_arg |-> None]
               ELSE IF c.result # OkUnit
               THEN call @@ [session |-> c.session, result |-> c.result, io |-> c.io,
                             exec_arg |-> None]
               ELSE IF execFail = 0 /\ exit_code = Running
               THEN call @@ [session |-> c.session,
                             result |-> Pending,
                             io |-> c.io \o SubSeq(ExecSteps, 1, BlockingStep),
                             exec_arg |-> Some(command),
                             exited |-> FALSE]
               ELSE IF execFail = 0
               THEN call @@ [session |-> c.session,
                             result |-> SSHCommandResult(command, exit_code[1]),
                             io |-> c.io \o ExecSteps,
                             exec_arg |-> Some(command),
                             exited |-> TRUE]
               ELSE call @@ [session |-> c.session,
                             result |-> ExecError(ExecSteps[execFail]),
                             io |-> c.io \o SubSeq(ExecSteps, 1, execFail),
                             exec_arg |-> IF execFail >= 2 THEN Some(command) ELSE None]
           : chk \in {safety_check(command, validate_safety)} })

\* docker_command delegating with validation off.
docker_command_unvalidated(sess, command, connectFail, execFail, exit_code) ==
    Once({ execute_command(sess, full, FALSE, None, connectFail, execFail, exit_code)
               @@ [arg |-> command]
           : full \in {DOCKER_PREFIX \o command} })

\* SSHClient::docker_command, ssh.rs:266-269.  The outcome is that of
\* execute_command, with the argument of docker_command added to the record
\* of the call.
docker_command(sess, command, connectFail, execFail, exit_code) ==
    Once({ execute_command(sess, full, TRUE, None, connectFail, execFail, exit_code)
               @@ [arg |-> command]
           : full \in {DOCKER_PREFIX \o command} })

\* SSHClient::get_container_status, ssh.rs:272-282.
get_container_status(sess, container_name, connectFail, execFail, exit_code) ==
    LET filter == IF container_name = None THEN <<>>
                  ELSE FILTER_PREFIX \o container_name[1] \o FILTER_SUFFIX
    IN  docker_command(sess, PS_PREFIX \o filter \o PS_FORMAT,
                       connectFail, execFail, exit_code)

RECURSIVE Decimal(_)
\* Display of a u32: its decimal digits.
Decimal(n) ==
    IF n < 10 THEN <<Digits[n + 1]>>
    ELSE Decimal(n \div 10) \o <<Digits[(n % 10) + 1]>>

\* SSHClient::get_container_logs, ssh.rs:285-296.
get_container_logs(sess, container_name, tail, follow, connectFail, execFail, exit_code) ==
    LET tail_arg == IF tail = None THEN <<>> ELSE TAIL_PREFIX \o Decimal(tail[1])
        follow_arg == IF follow THEN FOLLOW_FLAG ELSE <<>>
    IN  docker_command(sess,
                       LOGS_PREFIX \o tail_arg \o <<" ">> \o follow_arg \o <<" ">>
                           \o container_name,
                       connectFail, execFail, exit_code)

(***************************************************************************)
(* The client specification: one SSHClient, its public methods called one  *)
(* at a time, in any order, with any inputs and any outcome of the steps.  *)
(***************************************************************************)
MaxTail == 10

TailInputs == {None, Some(MaxTail)}

ConnectFails == 0..Len(ConnectSteps)

ExecFails == 0..Len(ExecSteps)

ExitCodes == {0, 1}

MaxTimeout == 5

\* The timeout argument of execute_command, in seconds.
TimeoutInputs == {None, Some(MaxTimeout)}

\* The outcomes of one call on a client whose session field is sess: at most
\* one step fails, the steps after a failing step are not reached, no step
\* of connect() is reached on a connected client, and the remote process
\* exits with a code or keeps running.
Outcomes(sess) ==
    {o \in [cf : ConnectFails, ef : ExecFails,
             ec : {Some(c) : c \in ExitCodes} \cup {Running}] :
        /\ sess # None => o.cf = 0
        /\ o.cf # 0 => o.ef = 0
        /\ (o.cf # 0 \/ o.ef # 0) => o.ec = Some(0)}

\* The last call has not returned.  The call borrows the client mutably and
\* blocks its thread, so no other method can be called meanwhile.
Blocked == "result" \in DOMAIN last /\ last.result = Pending

\* SSHClient::new, ssh.rs:147-153: no session.
Init ==
    /\ cmd = <<>>
    /\ validation = NotYet
    /\ checked = NotYet
    /\ session = None
    /\ last = [op |-> "new"]
    /\ io = <<>>
    /\ output = <<>>
    /\ containers = None
    /\ AppState_new(DefaultEnvironment)

\* The effect of a call of method op with outcome out on the client.
Return(op, outcome) ==
    \E out \in {outcome} :
        /\ ~Blocked
        /\ session' = out.session
        /\ io' = out.io
        /\ last' = [op |-> op] @@ [f \in (DOMAIN out) \ {"session", "io"} |-> out[f]]
        /\ UNCHANGED <<cmd, validation, checked, parseVars, webVars>>

Connect ==
    \E cf \in {o.cf : o \in Outcomes(session)} : Return("connect", connect(session, cf))

Disconnect ==
    \E closeFails \in (IF session = None THEN {FALSE} ELSE BOOLEAN) :
        Return("disconnect", disconnect(session, closeFails))

\* The values of the session field that connect() and disconnect() leave.
Sessions == {None, Some(Session)}

\* The inputs of the command methods in the specification: the session the
\* call finds, the arguments, the outcome of the transport.
ExecuteCommandInputs ==
    {k : k \in UNION {{sess} \X ClientCommands \X BOOLEAN \X TimeoutInputs
                          \X Outcomes(sess) : sess \in Sessions}}

DockerCommandInputs ==
    {k : k \in UNION {{sess} \X DockerArgs \X Outcomes(sess) : sess \in Sessions}}

GetContainerStatusInputs ==
    {k : k \in UNION {{sess} \X ({None} \cup {Some(n) : n \in ContainerNames})
                          \X Outcomes(sess) : sess \in Sessions}}

GetContainerLogsInputs ==
    {k : k \in UNION {{sess} \X ContainerNames \X TailInputs \X BOOLEAN
                          \X Outcomes(sess) : sess \in Sessions}}

\* The command methods tabulated over these inputs, one evaluation for each.
ExecuteCommandTable ==
    [k \in ExecuteCommandInputs |->
        execute_command(k[1], k[2], k[3], k[4], k[5].cf, k[5].ef, k[5].ec)]

DockerCommandTable ==
    [k \in DockerCommandInputs |-> docker_command(k[1], k[2], k[3].cf, k[3].ef, k[3].ec)]

GetContainerStatusTable ==
    [k \in GetContainerStatusInputs |->
        get_container_status(k[1], k[2], k[3].cf, k[3].ef, k[3].ec)]

GetContainerLogsTable ==
    [k \in GetContainerLogsInputs |->
        get_container_logs(k[1], k[2], k[3], k[4], k[5].cf, k[5].ef, k[5].ec)]

ExecuteCommand ==
    \E command \in ClientCommands, validate_safety \in BOOLEAN,
       timeout \in TimeoutInputs, o \in Outcomes(session) :
        Return("execute_command",
               IF session \in Sessions
               THEN ExecuteCommandTable[<<session, command, validate_safety, timeout, o>>]
               ELSE execute_command(session, command, validate_safety, timeout,
                                    o.cf, o.ef, o.ec))

DockerCommand ==
    \E command \in DockerArgs, o \in Outcomes(session) :
        Return("docker_command",
               IF session \in Sessions
               THEN DockerCommandTable[<<session, command, o>>]
               ELSE docker_command(session, command, o.cf, o.ef, o.ec))

GetContainerStatus ==
    \E container_name \in {None} \cup {Some(n) : n \in ContainerNames},
       o \in Outcomes(session) :
        Return("get_container_status",
               IF session \in Sessions
               THEN GetContainerStatusTable[<<session, container_name, o>>]
               ELSE get_container_status(session, container_name, o.cf, o.ef, o.ec))

GetContainerLogs ==
    \E container_name \in ContainerNames, tail \in TailInputs, follow \in BOOLEAN,
       o \in Outcomes(session) :
        Return("get_container_logs",
               IF session \in Sessions
               THEN GetContainerLogsTable[<<session, container_name, tail, follow, o>>]
               ELSE get_container_logs(session, container_name, tail, follow,
                                       o.cf, o.ef, o.ec))

Next ==
    \/ Connect
    \/ Disconnect
    \/ ExecuteCommand
    \/ DockerCommand
    \/ GetContainerStatus
    \/ GetContainerLogs

Spec == Init /\ [][Next]_vars

(***************************************************************************)
(* The dashboard, optima-ops-web: AppState (state.rs) and the handlers of  *)
(* routes/mod.rs that run a docker command over the shared SSH client.     *)
(* Tasks run concurrently; a step of a task is what it does between two    *)
(* points at which another task can be observed to act.                    *)
(***************************************************************************)
\* SSHClient::new, ssh.rs:147-153: bound to env, no session.
SSHClient_new(env) == [env |-> env, session |-> None]

\* "restart {}" of api_container_restart, routes/mod.rs:508.
RESTART_PREFIX == <<"r", "e", "s", "t", "a", "r", "t", " ">>

\* The requests that use the SSH client, with their arguments.
Requests ==
    {[kind |-> "fetch_containers_via_ssh"]}
        \cup {[kind |-> "fetch_container_logs_via_ssh", container_name |-> n, tail |-> MaxTail]
                  : n \in ContainerNames}
        \cup {[kind |-> "api_container_restart", name |-> n] : n \in ContainerNames}

\* The call each handler makes on the client once connect() returned Ok:
\* routes/mod.rs:350-353, 443-446 and 508.
HandlerCommand(req, sess, o) ==
    CASE req.kind = "fetch_containers_via_ssh" ->
             get_container_status(sess, None, o.cf, o.ef, o.ec)
      [] req.kind = "fetch_container_logs_via_ssh" ->
             get_container_logs(sess, req.container_name, Some(req.tail), FALSE,
                                o.cf, o.ef, o.ec)
      [] req.kind = "api_container_restart" ->
             docker_command(sess, RESTART_PREFIX \o req.name, o.cf, o.ef, o.ec)

\* The inputs of HandlerCommand: the request, the session the call finds and
\* the outcome of the transport.
HandlerInputs ==
    {k : k \in UNION {Requests \X {sess} \X Outcomes(sess) : sess \in Sessions}}

\* HandlerCommand tabulated over these inputs, one evaluation for each.
HandlerOutcomes ==
    [k \in HandlerInputs |-> HandlerCommand(k[1], k[2], k[3])]

\* Mutex::lock granting a guard without waiting for the holder.
lock_unguarded(holder) == TRUE

\* self.inner.ssh_client.lock().await, state.rs:60: the guard is granted
\* when no other guard is alive.
lock(holder) == holder = None

\* self.inner.ssh_client.try_lock(), state.rs:43: Ok when no guard is alive.
try_lock(holder) == holder = None

\* The state after construction, for any environment of the configuration.
InitWeb ==
    /\ \E env \in Environments : AppState_new(env)
    /\ cmd = <<>>
    /\ validation = NotYet
    /\ checked = NotYet
    /\ session = None
    /\ last = [op |-> "new"]
    /\ io = <<>>
    /\ output = <<>>
    /\ containers = None

\* The position of task t.
At(t, pc) == tasks[t].pc = pc

\* Task t moves to position pc of its request.
Goto(t, pc) == tasks' = [tasks EXCEPT ![t].pc = pc]

\* Task t moves to position pc of its request after a call on the client
\* that took the steps in steps.
GotoAfter(t, pc, steps) ==
    tasks' = [tasks EXCEPT ![t].pc = pc, ![t].io = @ \o steps]

\* A handler returning with its guard still alive.
HandlerReturns_keeping_guard(t) ==
    /\ tasks' = [tasks EXCEPT ![t] = Idle]
    /\ ssh_client_lock' = ssh_client_lock

\* The handler of task t returns: its guard, if it has one, is dropped.
HandlerReturns(t) ==
    /\ tasks' = [tasks EXCEPT ![t] = Idle]
    /\ ssh_client_lock' = IF ssh_client_lock = Some(t) THEN None ELSE ssh_client_lock

\* A handler is entered and calls get_ssh_client(), routes/mod.rs:345, 438, 494.
\* The task keeps its request and the steps that its calls on the client
\* have taken so far.
StartRequest(t) ==
    /\ tasks[t] = Idle
    /\ \E req \in Requests :
           tasks' = [tasks EXCEPT ![t] = [pc |-> "lock", req |-> req, io |-> <<>>]]
    /\ UNCHANGED <<current_env, ssh_client, ssh_client_lock>>
    /\ UNCHANGED otherVars

\* get_ssh_client, state.rs:60: the guard of the mutex is acquired.
AcquireLock(t) ==
    /\ At(t, "lock")
    /\ lock(ssh_client_lock)
    /\ ssh_client_lock' = Some(t)
    /\ Goto(t, "get_ssh_client")
    /\ UNCHANGED <<current_env, ssh_client>>
    /\ UNCHANGED otherVars

\* get_ssh_client creating a client on every call.
GetOrCreate_always_new(t) ==
    /\ At(t, "get_ssh_client")
    /\ ssh_client' = Some(SSHClient_new(current_env))
    /\ Goto(t, "connect")
    /\ UNCHANGED <<current_env, ssh_client_lock>>
    /\ UNCHANGED otherVars

\* get_ssh_client, state.rs:62-68: a missing client is created for the
\* current environment; the guard is returned.  The handler takes the client
\* out of the guard (routes/mod.rs:346) and calls connect().
GetOrCreate(t) ==
    /\ At(t, "get_ssh_client")
    /\ ssh_client' = IF ssh_client = None
                     THEN Some(SSHClient_new(current_env))
                     ELSE ssh_client
    /\ Goto(t, "connect")
    /\ UNCHANGED <<current_env, ssh_client_lock>>
    /\ UNCHANGED otherVars

\* client.connect() returns, routes/mod.rs:348: on an error the handler
\* returns, otherwise it calls its command.
ConnectReturns(t) ==
    /\ At(t, "connect")
    /\ ssh_client # None
    /\ \E cf \in {o.cf : o \in Outcomes(ssh_client[1].session)} :
           LET c == connect(ssh_client[1].session, cf)
           IN  /\ ssh_client' = Some([ssh_client[1] EXCEPT !.session = c.session])
               /\ IF c.result = OkUnit
                  THEN GotoAfter(t, "command", c.io) /\ UNCHANGED ssh_client_lock
                  ELSE HandlerReturns(t)
    /\ UNCHANGED current_env
    /\ UNCHANGED otherVars

\* The command of the handler returns and so does the handler,
\* routes/mod.rs:350-370, 443-458, 508-523; or the command blocks on a
\* remote process that does not exit, and the handler with it.
CommandReturns(t) ==
    /\ At(t, "command")
    /\ ssh_client # None
    /\ \E o \in Outcomes(ssh_client[1].session) :
           LET out == HandlerOutcomes[<<tasks[t].req, ssh_client[1].session, o>>]
           IN  /\ ssh_client' = Some([ssh_client[1] EXCEPT !.session = out.session])
               /\ IF out.result = Pending
                  THEN GotoAfter(t, "blocked", out.io) /\ UNCHANGED ssh_client_lock
                  ELSE HandlerReturns(t)
    /\ UNCHANGED current_env
    /\ UNCHANGED otherVars

\* set_environment(env), state.rs:40-41: current_env is written.
SetEnvironment(t) ==
    /\ tasks[t] = Idle
    /\ \E env \in Environments :
           /\ current_env' = env
           /\ tasks' = [tasks EXCEPT ![t] = [pc |-> "try_lock", env |-> env]]
    /\ UNCHANGED <<ssh_client, ssh_client_lock>>
    /\ UNCHANGED otherVars

\* set_environment, state.rs:43-45: if the mutex can be locked at once, None
\* is assigned to the client, which drops the client that was there, if any;
\* otherwise the client is kept.  The task keeps the outcome of the drop.
ResetClient(t) ==
    /\ At(t, "try_lock")
    /\ ssh_client' = IF try_lock(ssh_client_lock) THEN None ELSE ssh_client
    /\ IF try_lock(ssh_client_lock) /\ ssh_client # None
       THEN \E closeFails \in (IF ssh_client[1].session = None THEN {FALSE} ELSE BOOLEAN) :
                tasks' = [tasks EXCEPT ![t] =
                              [pc |-> "reset",
                               dropped |-> Some(drop(ssh_client[1].session, closeFails))]]
       ELSE tasks' = [tasks EXCEPT ![t] = [pc |-> "reset", dropped |-> None]]
    /\ UNCHANGED <<current_env, ssh_client_lock>>
    /\ UNCHANGED otherVars

\* set_environment returns, state.rs:46.
SetEnvironmentReturns(t) ==
    /\ At(t, "reset")
    /\ tasks' = [tasks EXCEPT ![t] = Idle]
    /\ UNCHANGED <<current_env, ssh_client, ssh_client_lock>>
    /\ UNCHANGED otherVars

NextWeb ==
    \E t \in Tasks :
        \/ StartRequest(t)
        \/ AcquireLock(t)
        \/ GetOrCreate(t)
        \/ ConnectReturns(t)
        \/ CommandReturns(t)
        \/ SetEnvironment(t)
        \/ ResetClient(t)
        \/ SetEnvironmentReturns(t)

SpecWeb == InitWeb /\ [][NextWeb]_vars

\* The scheduling of the dashboard.  A task that can take its next step
\* inside a handler or inside set_environment takes it: the runtime polls
\* every ready task.  The tokio mutex queues its waiters first in, first
\* out, so a task waiting in lock() is not passed over for ever.  Nothing
\* obliges a request or a call of set_environment to arrive.
FairnessWeb ==
    \A t \in Tasks :
        /\ SF_vars(AcquireLock(t))
        /\ WF_vars(GetOrCreate(t))
        /\ WF_vars(ConnectReturns(t))
        /\ WF_vars(CommandReturns(t))
        /\ WF_vars(ResetClient(t))
        /\ WF_vars(SetEnvironmentReturns(t))

SpecWebFair == InitWeb /\ [][NextWeb]_vars /\ FairnessWeb

(***************************************************************************)
(* Vocabulary of the properties.                                           *)
(***************************************************************************)
\* validate_command has been applied to cmd.
Validated == validation # NotYet

\* The trimmed, lower-cased form of cmd.
Normalized == ToLowercase(Trim(cmd))

\* The indices of the dangerous-list entries that s contains.
DangerousIn(s) ==
    {i \in 1..Len(DANGEROUS_COMMANDS) : Contains(s, DANGEROUS_COMMANDS[i])}

\* s starts with an entry of list.
HasPrefixIn(s, list) == \E i \in 1..Len(list) : StartsWith(s, list[i])

Whitelisted(s) ==
    HasPrefixIn(s, READONLY_COMMANDS) \/ HasPrefixIn(s, LOWRISK_COMMANDS)

\* s has a pipe character outside of every quoted substring.
HasUnquotedPipe(s) == ContainsChar(Unquoted(s), "|")

\* The reasons of the three rejection rules.
DangerousReason(i) == Some(<<MSG_DANGEROUS>> \o DANGEROUS_COMMANDS[i])

PipeReason == Some(<<MSG_DANGEROUS, "|">>)

NotWhitelistedReason == Some(<<MSG_NOT_WHITELISTED>>)

\* The methods of the client that run a command.
ExecMethods ==
    {"execute_command", "docker_command", "get_container_status", "get_container_logs"}

HelperMethods == ExecMethods \ {"execute_command"}

\* The last call ran a command method.
Ran == last.op \in ExecMethods

\* The steps of the last call that are network I/O.
NetworkIO == {k \in 1..Len(io) : io[k] \in NetworkSteps}

(***************************************************************************)
(* C1: every command whose trimmed, lower-cased form contains an entry of  *)
(* the dangerous list is rejected by validate_command, also when it starts *)
(* with a whitelisted prefix.                                              *)
(***************************************************************************)
C1_DangerousRejected ==
    (Validated /\ DangerousIn(Normalized) # {}) => ~validation.safe

\* A command with a whitelisted prefix and a dangerous token was rejected.
C1_Witness ==
    /\ Validated
    /\ DangerousIn(Normalized) # {}
    /\ Whitelisted(Normalized)
    /\ ~validation.safe

(***************************************************************************)
(* C2: a command is handed to the exec channel only if validate_command    *)
(* accepted it or the call was made with validate_safety = false, and      *)
(* every call through docker_command, get_container_status and             *)
(* get_container_logs reaches execute_command with validate_safety = true. *)
(***************************************************************************)
C2_ExecOnlyIfAccepted ==
    Ran =>
        /\ last.exec_arg # None =>
               (~last.validate_safety \/ validate_command(last.exec_arg[1]).safe)
        /\ last.op \in HelperMethods => last.validate_safety

\* A helper handed its command to the exec channel.
C2_Witness ==
    /\ Ran
    /\ last.op \in HelperMethods
    /\ last.exec_arg # None
    /\ last.result.kind = "Ok"

(***************************************************************************)
(* C3: execute_command called with validate_safety = true on a command     *)
(* that validate_command rejects returns an error and performs no network  *)
(* I/O during the call, connected or not.                                  *)
(***************************************************************************)
C3_RejectedNoNetworkIO ==
    (Ran /\ last.validate_safety /\ ~validate_command(last.command).safe) =>
        /\ last.result.kind = "CommandExecution"
        /\ NetworkIO = {}
        /\ last.exec_arg = None

\* A rejected call on a client that is not connected: the call that would
\* otherwise have connected.
C3_Witness ==
    /\ Ran
    /\ last.validate_safety
    /\ ~validate_command(last.command).safe
    /\ session = None
    /\ io = <<>>

(***************************************************************************)
(* C4, as stated: every command with a pipe character outside of quoted    *)
(* substrings is rejected with the reason naming the pipe.                 *)
(***************************************************************************)
C4_UnquotedPipeNamesPipe ==
    (Validated /\ HasUnquotedPipe(cmd)) =>
        (~validation.safe /\ validation.reason = PipeReason)

(***************************************************************************)
(* C4, amended: every command with a pipe character outside of quoted      *)
(* substrings is rejected; the reason names the pipe when the command      *)
(* contains no dangerous-list entry (otherwise the dangerous check, which  *)
(* runs first, names the entry it found).                                  *)
(***************************************************************************)
C4_UnquotedPipeRejected ==
    (Validated /\ HasUnquotedPipe(cmd)) =>
        /\ ~validation.safe
        /\ DangerousIn(Normalized) = {} => validation.reason = PipeReason

\* A command with a whitelisted prefix and an unquoted pipe was rejected by
\* the pipe check.
C4_Witness ==
    /\ Validated
    /\ HasUnquotedPipe(cmd)
    /\ Whitelisted(Normalized)
    /\ validation.reason = PipeReason

(***************************************************************************)
(* C5: a command whose only pipe characters lie inside matched quotes,     *)
(* that contains no dangerous token and starts with a whitelisted prefix,  *)
(* is accepted.                                                            *)
(***************************************************************************)
C5_QuotedPipeAccepted ==
    ( /\ Validated
      /\ ContainsChar(cmd, "|")
      /\ ~HasUnquotedPipe(cmd)
      /\ DangerousIn(Normalized) = {}
      /\ Whitelisted(Normalized) ) => validation.safe

(***************************************************************************)
(* C6: every command that redirects output to a file with > or >> is       *)
(* rejected (by the dangerous check, hence whatever its prefix is).  A     *)
(* redirection is a > outside of quoted substrings that is followed by a   *)
(* target.                                                                 *)
(***************************************************************************)
Redirects(s) ==
    Once({ \E i \in 1..Len(u) :
               /\ u[i] = ">"
               /\ \E k \in (i + 1)..Len(u) : u[k] \notin WhiteSpace \cup {">"}
           : u \in {Unquoted(s)} })

C6_RedirectionRejected ==
    (Validated /\ Redirects(cmd)) => ~validation.safe

(***************************************************************************)
(* C7: validate_command accepts a command only if its verb is a            *)
(* whitelisted verb: the command is a whitelisted entry, alone or followed *)
(* by white space and arguments.  (An entry that itself ends in a          *)
(* separator, "ip " and "ip-", bounds its verb by that separator.)         *)
(***************************************************************************)
IsVerbOf(s, p) ==
    /\ StartsWith(s, p)
    /\ \/ Len(s) = Len(p)
       \/ s[Len(p) + 1] \in WhiteSpace
       \/ p[Len(p)] \in {" ", "-"}

HasWhitelistedVerb(s) ==
    \/ \E i \in 1..Len(READONLY_COMMANDS) : IsVerbOf(s, READONLY_COMMANDS[i])
    \/ \E i \in 1..Len(LOWRISK_COMMANDS) : IsVerbOf(s, LOWRISK_COMMANDS[i])

C7_AcceptedOnlyWhitelistedVerb ==
    (Validated /\ validation.safe) => HasWhitelistedVerb(Normalized)

(***************************************************************************)
(* C8: a command with no dangerous token, no unquoted pipe and no          *)
(* whitelisted prefix is rejected with the reason "command not in          *)
(* whitelist".                                                             *)
(***************************************************************************)
C8_NotWhitelistedReason ==
    ( /\ Validated
      /\ DangerousIn(Normalized) = {}
      /\ ~HasUnquotedPipe(cmd)
      /\ ~Whitelisted(Normalized) ) =>
        (~validation.safe /\ validation.reason = NotWhitelistedReason)

(***************************************************************************)
(* C9: of the commands with no dangerous token and no unquoted pipe, one   *)
(* that starts with a read-only prefix is classified Safe, the verdict of  *)
(* "docker ps", and one that starts with a low-risk prefix is classified   *)
(* LowRisk: it is accepted too, with a verdict that differs from Safe.     *)
(* Stated for the commands without any pipe character, where the pipe      *)
(* check plays no part.                                                    *)
(***************************************************************************)
DockerPs == READONLY_COMMANDS[1]

C9_ThreeVerdicts ==
    (Validated /\ DangerousIn(Normalized) = {} /\ ~ContainsChar(cmd, "|")) =>
        /\ HasPrefixIn(Normalized, READONLY_COMMANDS) =>
               validation = validate_command(DockerPs)
        /\ ( /\ HasPrefixIn(Normalized, LOWRISK_COMMANDS)
             /\ ~HasPrefixIn(Normalized, READONLY_COMMANDS) ) =>
               (validation.safe /\ validation # validate_command(DockerPs))

(***************************************************************************)
(* C10: every rejection names the rule that fired.  If the trimmed,        *)
(* lower-cased command contains dangerous-list entries, the reason names   *)
(* the first of them in list order; otherwise, if the pipe check fired,    *)
(* it names the pipe; otherwise it says that the command is not in the     *)
(* whitelist.  The error of execute_command for a rejected command is a    *)
(* CommandExecution error whose message embeds that reason.                *)
(***************************************************************************)
C10_ReasonNamesRule ==
    (Validated /\ ~validation.safe) =>
        /\ LET hits == DangerousIn(Normalized)
           IN  IF hits # {}
               THEN \E i \in hits :
                        /\ \A k \in hits : i <= k
                        /\ validation.reason = DangerousReason(i)
               ELSE IF validation.reason = PipeReason
               THEN ContainsChar(cmd, "|")
               ELSE /\ validation.reason = NotWhitelistedReason
                    /\ ~HasUnquotedPipe(cmd)
                    /\ ~Whitelisted(Normalized)
        /\ (checked # NotYet /\ checked.validate_safety) =>
               checked.result =
                   OpsCLIError("CommandExecution", <<MSG_BLOCKED>> \o validation.reason[1])

\* A command with two dangerous entries was rejected naming the first in
\* list order, and the error of execute_command carries it.
C10_Witness ==
    /\ Validated
    /\ Cardinality(DangerousIn(Normalized)) >= 2
    /\ checked # NotYet
    /\ checked.validate_safety
    /\ checked.result.kind = "CommandExecution"

(***************************************************************************)
(* Vocabulary of the session properties.                                   *)
(***************************************************************************)
\* The steps of the last call that belong to connect().
ConnectIO == {k \in 1..Len(io) : \E i \in 1..Len(ConnectSteps) : io[k] = ConnectSteps[i]}

\* The last call was connect() and returned Ok.
Connected == last.op = "connect" /\ last.result = OkUnit

(***************************************************************************)
(* C11: connect() on a client that has a session returns Ok, takes no      *)
(* step and leaves the session as it is; of two connect() calls in a row   *)
(* that return Ok, the second performs no TCP connect, handshake or        *)
(* authentication, and the client has a session after each of them.        *)
(***************************************************************************)
C11_ConnectIdempotent ==
    [][ /\ (session # None /\ last'.op = "connect") =>
               /\ last'.result = OkUnit
               /\ io' = <<>>
               /\ session' = session
        /\ (Connected /\ last'.op = "connect") =>
               /\ session # None
               /\ session' # None
               /\ io' = <<>>
      ]_vars

\* connect() returned Ok without taking a step: the call found a session.
C11_Witness ==
    /\ Connected
    /\ session # None
    /\ io = <<>>

\* The last call was connect() and returned an error.
ConnectFailed == last.op = "connect" /\ last.result # OkUnit

\* The steps of the last call are the first steps of connect(), each taken
\* once and in order.
SingleAttempt == \E n \in 0..Len(ConnectSteps) : io = SubSeq(ConnectSteps, 1, n)

(***************************************************************************)
(* C12: a connect() that fails, at whichever step, returns an              *)
(* SSHConnection error carrying the cause, leaves the client without a     *)
(* session and has made a single attempt.                                  *)
(***************************************************************************)
C12_ConnectFailureIsSSHConnection ==
    ConnectFailed =>
        /\ last.result.kind = "SSHConnection"
        /\ last.result.msg # <<>>
        /\ session = None
        /\ SingleAttempt

\* The last call returned an error.
Failed == "result" \in DOMAIN last /\ last.result.kind # "Ok"

\* The last call got through the handshake and stopped at the
\* authentication: userauth_pubkey_memory returned an error, or it returned
\* Ok and authenticated() was false.
AuthenticationFailed ==
    /\ Failed
    /\ io # <<>>
    /\ io[Len(io)] \in {"userauth_pubkey_memory", "authenticated"}

(***************************************************************************)
(* C13: in every reachable state a client has a session only if that       *)
(* session completed its handshake and is authenticated; a call whose      *)
(* handshake succeeded and whose authentication was not established        *)
(* leaves the client without a session.                                    *)
(***************************************************************************)
C13_ConnectedOnlyIfAuthenticated ==
    /\ session # None => (session[1].handshake /\ session[1].authenticated)
    /\ AuthenticationFailed => session = None

\* connect() went through all its steps and stored the session.
C13_Witness ==
    /\ Connected
    /\ io = ConnectSteps
    /\ session # None
    /\ session[1].authenticated

(***************************************************************************)
(* C14: disconnect() returns normally and leaves the client without a      *)
(* session, whether the close of the transport succeeded or failed; on a   *)
(* client without a session, never connected or already disconnected, it   *)
(* attempts no close and changes nothing of the session.                   *)
(***************************************************************************)
C14_DisconnectAlways ==
    [][ last'.op = "disconnect" =>
            /\ session' = None
            /\ last'.result = OkUnit
            /\ session = None =>
                   /\ io' = <<>>
                   /\ last'.close = "none"
                   /\ session' = session
            /\ last.op \in {"new", "disconnect"} => session = None
      ]_vars

\* disconnect() on a connected client whose close failed.
C14_Witness ==
    /\ last.op = "disconnect"
    /\ last.close = "failed"
    /\ io = <<"session_disconnect">>
    /\ session = None

\* The last call started a remote process that does not exit: it is still
\* running when any timeout has elapsed.
ProcessRunning == Ran /\ "exited" \in DOMAIN last /\ ~last.exited

(***************************************************************************)
(* C15: when execute_command is given a timeout and the remote process     *)
(* does not exit before it elapses, the call returns a timeout error and   *)
(* leaves the client without a session.                                    *)
(***************************************************************************)
C15_TimeoutDisconnects ==
    (last.op = "execute_command" /\ last.timeout # None /\ ProcessRunning) =>
        /\ last.result.kind = "Timeout"
        /\ session = None

\* The last call was rejected by the safety policy.
PolicyRejected == Ran /\ last.validate_safety /\ ~validate_command(last.command).safe

\* The error kinds that a failure to open the channel, to exec, to read or
\* to close is reported with.
ExecFailureKinds == {ExecError(ExecSteps[i]).kind : i \in 1..Len(ExecSteps)}

\* The error kinds that a failure of the TCP connection or of the handshake
\* is reported with.
TransportFailureKinds == {ConnectError(step).kind : step \in {"tcp_connect", "handshake"}}

(***************************************************************************)
(* C16: the error kinds tell the failures apart: a policy rejection never  *)
(* has the error kind of a channel open, exec, read or close failure, and  *)
(* an authentication failure never has the error kind of a TCP or          *)
(* handshake failure.                                                      *)
(***************************************************************************)
C16_ErrorKindsDistinct ==
    /\ PolicyRejected => last.result.kind \notin ExecFailureKinds
    /\ AuthenticationFailed => last.result.kind \notin TransportFailureKinds

\* The last call returned the rejection error of the safety check
\* (ssh.rs:212-215).
RejectionReturned ==
    /\ Ran
    /\ last.result.kind = "CommandExecution"
    /\ last.result.msg[1] = MSG_BLOCKED

(***************************************************************************)
(* C20: a call that is rejected by the safety policy leaves the session    *)
(* field as it was, with or without a session; the next call on a client   *)
(* with a session, when it is accepted, takes no step of connect() and     *)
(* runs on that same session.                                              *)
(***************************************************************************)
C20_RejectionKeepsSession ==
    [][ /\ RejectionReturned' => session' = session
        /\ (RejectionReturned /\ session # None /\ Ran' /\ ~RejectionReturned') =>
               /\ ConnectIO' = {}
               /\ session' = session
               /\ io' # <<>> /\ io'[1] = ExecSteps[1]
      ]_vars

\* A rejected call on a client with a session, which it still has.
C20_Witness ==
    /\ RejectionReturned
    /\ last.validate_safety
    /\ session # None

(***************************************************************************)
(* Vocabulary of the parser property: the reference, by positions.         *)
(***************************************************************************)
\* The positions at which a line of s starts: the first character and every
\* character after a line feed.
LineStarts(s) == {a \in 1..Len(s) : a = 1 \/ s[a - 1] = "\n"}

\* The line of s that starts at a, without its line ending ("\n" or "\r\n").
LineText(s, a) ==
    LET e == CHOOSE k \in (a - 1)..Len(s) :
                 /\ k = Len(s) \/ s[k + 1] = "\n"
                 /\ \A j \in a..k : s[j] # "\n"
    IN  IF e < Len(s) /\ e >= a /\ s[e] = "\r"
        THEN SubSeq(s, a, e - 1)
        ELSE SubSeq(s, a, e)

\* A blank or whitespace-only line.
IsBlank(t) == \A i \in 1..Len(t) : t[i] \in WhiteSpace

\* The number of tab-separated fields of t.
NumFields(t) == Cardinality({i \in 1..Len(t) : t[i] = "\t"}) + 1

\* The position of the n-th tab of t; 0 for n = 0 and Len(t) + 1 past the
\* last tab.
TabAt(t, n) ==
    IF n = 0 THEN 0
    ELSE IF n >= NumFields(t) THEN Len(t) + 1
    ELSE CHOOSE p \in 1..Len(t) :
             /\ t[p] = "\t"
             /\ Cardinality({q \in 1..p : t[q] = "\t"}) = n

\* The k-th tab-separated field of t.
Field(t, k) == SubSeq(t, TabAt(t, k - 1) + 1, TabAt(t, k) - 1)

\* The record the reference emits for a line t of at least 3 fields.
ReferenceRecord(t) ==
    [id |-> Field(t, 1), name |-> Field(t, 2), status |-> Field(t, 3),
     ports |-> IF NumFields(t) >= 4 THEN Field(t, 4) ELSE <<>>]

\* The starts of the lines of s for which the reference emits a record.
EmittingLines(s) ==
    {a \in LineStarts(s) : ~IsBlank(LineText(s, a)) /\ NumFields(LineText(s, a)) >= 3}

(***************************************************************************)
(* C19: parse_container_status returns, for every input, the records of    *)
(* the reference in input order: one record for each line that is not      *)
(* blank or whitespace-only and has at least 3 tab-separated fields, with  *)
(* id, name, status the fields 1 to 3 and ports the field 4 or the empty   *)
(* string, and nothing else; the empty list when no line qualifies.        *)
(***************************************************************************)
C19_ParseEqualsReference ==
    containers # None =>
        LET got == containers[1]
            emitting == EmittingLines(output)
        IN  /\ Len(got) = Cardinality(emitting)
            /\ \A a \in emitting :
                   got[Cardinality({b \in emitting : b <= a})]
                       = ReferenceRecord(LineText(output, a))

\* Two lines gave two different records in input order, the second with a
\* ports field.
C19_Witness ==
    /\ containers # None
    /\ Len(containers[1]) = 2
    /\ containers[1][1].ports = <<>>
    /\ containers[1][2].ports # <<>>

(***************************************************************************)
(* Vocabulary of the dashboard properties.                                 *)
(***************************************************************************)
\* Task t is inside connect() or inside the command of its handler
\* (docker_command or a helper, hence execute_command) on the shared client.
InClient(t) == tasks[t].pc \in {"connect", "command", "blocked"}

\* Task t is between the acquisition of the guard and its handler's return.
HoldsGuard(t) == tasks[t].pc \in {"get_ssh_client", "connect", "command", "blocked"}

\* A call of set_environment has written current_env and has not returned.
Switching == \E t \in Tasks : tasks[t].pc \in {"try_lock", "reset"}

(***************************************************************************)
(* C17: at most one task at a time is inside connect() or the command of   *)
(* its handler on the shared SSHClient, and that task holds the guard of   *)
(* the ssh_client mutex from before connect() until its handler returns.   *)
(***************************************************************************)
C17_OneRequestInClient ==
    /\ Cardinality({t \in Tasks : InClient(t)}) <= 1
    /\ \A t \in Tasks : HoldsGuard(t) => ssh_client_lock = Some(t)
    /\ \A t \in Tasks : InClient(t) => ssh_client # None

\* One task runs its command on the client while another waits for the
\* mutex.
C17_Witness ==
    \E t, u \in Tasks :
        /\ tasks[t].pc = "command"
        /\ tasks[u].pc = "lock"
        /\ ssh_client_lock = Some(t)

(***************************************************************************)
(* C18: once set_environment has returned, no SSHClient of the previous    *)
(* environment is left: whenever no call of set_environment is in          *)
(* progress, the shared client, if there is one, is bound to               *)
(* current_env, so that a handler's guard never gives a client of another  *)
(* environment and no command runs on a session to the previous host.      *)
(***************************************************************************)
C18_ClientFollowsEnvironment ==
    ~Switching => (ssh_client # None => ssh_client[1].env = current_env)

(***************************************************************************)
(* Vocabulary of the connection properties of execute_command.             *)
(***************************************************************************)
\* The steps of the last call that are steps of execute_command() on the
\* channel.
ChannelIO == {k \in 1..Len(io) : \E i \in 1..Len(ExecSteps) : io[k] = ExecSteps[i]}

\* The last call ran a command method and was not rejected by the safety
\* check: the command passed validation or validation was off.
AcceptedCall == Ran /\ ~RejectionReturned

(***************************************************************************)
(* C21: a command method called on a client without a session, with a      *)
(* command that is not rejected, first takes the steps of connect(), once  *)
(* and in order, and opens a channel only after all of them; when a step   *)
(* of connect() fails, the error of that step is returned, no channel is   *)
(* opened, no command is handed to exec and the client stays without a     *)
(* session.                                                                *)
(***************************************************************************)
C21_ConnectOnceBeforeChannel ==
    [][ (session = None /\ AcceptedCall') =>
            /\ \E n \in 1..Len(ConnectSteps) :
                   /\ n <= Len(io')
                   /\ SubSeq(io', 1, n) = SubSeq(ConnectSteps, 1, n)
                   /\ ConnectIO' = 1..n
            /\ ChannelIO' # {} =>
                   /\ SubSeq(io', 1, Len(ConnectSteps)) = ConnectSteps
                   /\ session' # None
            /\ ChannelIO' = {} =>
                   /\ last'.result = ConnectError(io'[Len(io')])
                   /\ last'.exec_arg = None
                   /\ session' = None
      ]_vars

\* An accepted command on a client without a session whose connect() failed
\* at the handshake.
C21_Witness ==
    /\ AcceptedCall
    /\ last.op = "execute_command"
    /\ io = SubSeq(ConnectSteps, 1, 5)
    /\ last.result.kind = "SSHConnection"
    /\ session = None

\* The last call ran a command method and failed at a step on the channel:
\* opening it, exec, reading stdout or stderr, wait_close or exit_status.
ChannelFailed == Ran /\ Failed /\ ChannelIO # {}

(***************************************************************************)
(* C22: a command method that fails at a step on the channel leaves the    *)
(* client with a session, the one it had when it had one; the next command *)
(* method or connect() after such a failure takes no step of connect() and *)
(* leaves that same session in place.                                      *)
(***************************************************************************)
C22_ExecFailureKeepsSession ==
    [][ /\ ChannelFailed' =>
               /\ session' # None
               /\ session # None => session' = session
        /\ (ChannelFailed /\ last'.op \in ExecMethods \cup {"connect"}) =>
               /\ ConnectIO' = {}
               /\ session' = session
               /\ session' # None
      ]_vars

\* A command on a client with a session failed while reading stdout; the
\* session is still there.
C22_Witness ==
    /\ ChannelFailed
    /\ io = SubSeq(ExecSteps, 1, 3)
    /\ session = Some(Session)

\* No handler is blocked in a remote operation that does not terminate.
NoneBlocked == \A t \in Tasks : ~At(t, "blocked")

\* Only a task inside its handler, after lock(), holds the guard.
GuardOnlyInHandler == \A t \in Tasks : ssh_client_lock = Some(t) => HoldsGuard(t)

(***************************************************************************)
(* C23: a handler that has returned, by whichever path, no longer holds    *)
(* the guard of the ssh_client mutex; so, with the scheduling of           *)
(* FairnessWeb, every task waiting in lock() eventually holds the guard,   *)
(* unless a handler is blocked in a remote operation that does not         *)
(* terminate.                                                              *)
(***************************************************************************)
C23_GuardReleasedEventuallyAcquired ==
    /\ []GuardOnlyInHandler
    /\ \A t \in Tasks :
           At(t, "lock") ~> (ssh_client_lock = Some(t) \/ ~NoneBlocked)

\* A task waits in lock() while the holder of the guard runs a restart
\* whose command the safety check rejects.
C23_Witness ==
    \E t, u \in Tasks :
        /\ At(t, "lock")
        /\ At(u, "command")
        /\ ssh_client_lock = Some(u)
        /\ tasks[u].req.kind = "api_container_restart"
        /\ ~validate_command(DOCKER_PREFIX \o RESTART_PREFIX \o tasks[u].req.name).safe

\* Task t returns from get_ssh_client() in this step.
Obtains(t) == At(t, "get_ssh_client") /\ ~At(t, "get_ssh_client")'

(***************************************************************************)
(* C24: the AppState holds one client or none.  A client comes into being  *)
(* only in get_ssh_client, when there is none, by the task that holds the  *)
(* guard, and it is the new client of the current environment; a task      *)
(* that finds a client obtains that client with its session; a client is   *)
(* never replaced by another one directly, and goes away only in           *)
(* set_environment.                                                        *)
(***************************************************************************)
C24_AtMostOneClient ==
    [][ /\ (ssh_client = None /\ ssh_client' # None) =>
               /\ \E t \in Tasks : Obtains(t) /\ ssh_client_lock = Some(t)
               /\ ssh_client' = Some(SSHClient_new(current_env))
        /\ \A t \in Tasks :
               (Obtains(t) /\ ssh_client # None) => ssh_client' = ssh_client
        /\ (ssh_client # None /\ ssh_client' # None) =>
               ssh_client'[1].env = ssh_client[1].env
        /\ (ssh_client # None /\ ssh_client' = None) =>
               \E t \in Tasks : At(t, "try_lock")
      ]_vars

\* A later request has obtained the client that an earlier request created
\* and connected.
C24_Witness ==
    \E t \in Tasks :
        /\ At(t, "connect")
        /\ ssh_client # None
        /\ ssh_client[1].session # None

\* The command that api_container_restart hands to execute_command for the
\* container name n: "docker " + "restart " + n.
RestartCommand(n) == DOCKER_PREFIX \o RESTART_PREFIX \o n

\* The request of task t is a restart whose command validate_command rejects.
RejectedRestart(t) ==
    /\ "req" \in DOMAIN tasks[t]
    /\ tasks[t].req.kind = "api_container_restart"
    /\ ~validate_command(RestartCommand(tasks[t].req.name)).safe

\* The steps taken so far for the request of task t that are network I/O.
RequestNetworkIO(t) ==
    {k \in 1..Len(tasks[t].io) : tasks[t].io[k] \in NetworkSteps}

(***************************************************************************)
(* C25: when api_container_restart returns the rejection of a restart      *)
(* whose command validate_command rejects, the request has taken no step   *)
(* that is network I/O, neither of connect() nor on a channel, and the     *)
(* client is as the request found it.                                      *)
(***************************************************************************)
C25_RejectedRestartNoNetworkIO ==
    [][ \A t \in Tasks :
            (At(t, "command") /\ RejectedRestart(t) /\ ~At(t, "command")') =>
                /\ RequestNetworkIO(t) = {}
                /\ ssh_client' = ssh_client
      ]_vars

\* The last call reached channel.exec.
ExecReached == \E k \in 1..Len(io) : io[k] = "exec"

(***************************************************************************)
(* C26: the string handed to channel.exec and the command field of the     *)
(* result are the string that execute_command was given, character for     *)
(* character, neither trimmed nor lower-cased; for docker_command and the  *)
(* helpers built on it that string is "docker " followed by the argument   *)
(* of docker_command.                                                      *)
(***************************************************************************)
C26_CommandSentVerbatim ==
    Ran =>
        /\ ExecReached <=> last.exec_arg # None
        /\ last.exec_arg # None => last.exec_arg = Some(last.command)
        /\ last.result.kind = "Ok" =>
               /\ last.result.command = last.command
               /\ last.exec_arg = Some(last.command)
        /\ last.op \in HelperMethods => last.command = DOCKER_PREFIX \o last.arg

\* A command with capital letters and surrounding blanks was accepted, run
\* and echoed as given.
C26_Witness ==
    /\ last.op = "execute_command"
    /\ last.validate_safety
    /\ last.result.kind = "Ok"
    /\ last.command # ToLowercase(Trim(last.command))
    /\ last.exec_arg = Some(last.command)
    /\ last.result.command = last.command

(***************************************************************************)
(* Vocabulary of the normalisation property.                               *)
(***************************************************************************)
\* char::to_uppercase on the characters of the model: a lower-case letter
\* maps to its upper-case letter, the long s to "S", every other character
\* to itself.
UpperChar(c) ==
    IF c = LONG_S THEN "S"
    ELSE IF \E i \in 1..Len(LowerCase) : LowerCase[i] = c
    THEN UpperCase[CHOOSE i \in 1..Len(LowerCase) : LowerCase[i] = c]
    ELSE c

\* str::to_uppercase
ToUppercase(str) == [i \in 1..Len(str) |-> UpperChar(str[i])]

\* s with the case of its first letter changed.
FirstLetterSwapped(s) ==
    LET letters == {i \in 1..Len(s) : LowerChar(s[i]) # s[i] \/ UpperChar(s[i]) # s[i]}
    IN  IF letters = {} THEN s
        ELSE LET i == CHOOSE k \in letters : \A j \in letters : k <= j
             IN  [s EXCEPT ![i] = IF LowerChar(s[i]) # s[i] THEN LowerChar(s[i])
                                  ELSE UpperChar(s[i])]

\* Variants of s by the case of its letters and by white space around it.
Variants(s) ==
    {ToUppercase(s), ToLowercase(s), FirstLetterSwapped(s), Trim(s),
     <<" ">> \o s \o <<"\t", "\n">>}

\* Every character of s is an ASCII character.
IsAscii(s) == \A i \in 1..Len(s) : s[i] # LONG_S

(***************************************************************************)
(* C27, as stated: validate_command accepts a command exactly when it      *)
(* accepts each of its variants by the case of its letters and by leading  *)
(* and trailing white space.                                               *)
(***************************************************************************)
C27_VerdictOfVariants ==
    Validated => \A v \in Variants(cmd) : validate_command(v).safe = validation.safe

(***************************************************************************)
(* C27, amended: for a command of ASCII characters, the verdict of         *)
(* validate_command, acceptance and reason, is the verdict for each of     *)
(* its variants by the case of its letters and by leading and trailing     *)
(* white space.                                                            *)
(***************************************************************************)
C27_VerdictOfAsciiVariants ==
    (Validated /\ IsAscii(cmd)) =>
        \A v \in Variants(cmd) : validate_command(v) = validation

\* An accepted command in capital letters between blanks.
C27_Witness ==
    /\ Validated
    /\ IsAscii(cmd)
    /\ validation.safe
    /\ Trim(cmd) # cmd
    /\ ToLowercase(cmd) # cmd

\* The steps of the last call after those of connect().
ChannelSteps == SubSeq(io, Cardinality(ConnectIO) + 1, Len(io))

\* The fields of a result that carry what the command produced.
OutputFields == {"stdout", "stderr", "exit_code"}

(***************************************************************************)
(* C28: the steps a command method takes on the channel are the first      *)
(* steps of the sequence channel_session, exec, read stdout, read stderr,  *)
(* wait_close, exit_status, each once and in that order, after the steps   *)
(* of connect(); a result is returned only when all six were taken, and    *)
(* it carries stdout, stderr and the exit code; a call that fails returns  *)
(* an error that carries none of them.                                     *)
(***************************************************************************)
C28_AllOrNothing ==
    Ran =>
        /\ \E n \in 0..Len(ExecSteps) : ChannelSteps = SubSeq(ExecSteps, 1, n)
        /\ ConnectIO = 1..Cardinality(ConnectIO)
        /\ last.result.kind = "Ok" =>
               /\ ChannelSteps = ExecSteps
               /\ OutputFields \subseteq DOMAIN last.result
        /\ last.result.kind # "Ok" =>
               OutputFields \cap DOMAIN last.result = {}
        /\ (ChannelSteps # <<>> /\ Len(ChannelSteps) < Len(ExecSteps)) =>
               last.result.kind \in {"CommandExecution", "Pending"}

\* A call that failed in wait_close, after both reads: it returned an error
\* without output.
C28_Witness ==
    /\ Ran
    /\ ChannelSteps = SubSeq(ExecSteps, 1, 5)
    /\ last.result.kind = "CommandExecution"
    /\ DOMAIN last.result = {"kind", "msg"}

\* The dangerous-list entries that cmd contains, all of them inside quoted
\* substrings only: none is left once the quoted substrings are taken out.
DangerousOnlyQuoted ==
    /\ DangerousIn(Normalized) # {}
    /\ DangerousIn(Unquoted(Normalized)) = {}

(***************************************************************************)
(* C29: the dangerous check does not look at quotes: a command whose       *)
(* dangerous-list entries all lie inside single- or double-quoted          *)
(* substrings is rejected, with a reason that names one of them.           *)
(***************************************************************************)
C29_QuotedDangerousRejected ==
    (Validated /\ DangerousOnlyQuoted) =>
        /\ ~validation.safe
        /\ \E i \in DangerousIn(Normalized) : validation.reason = DangerousReason(i)

\* grep "a;b": whitelisted verb, the only dangerous entry inside double
\* quotes, rejected for it.
C29_Witness ==
    /\ Validated
    /\ DangerousOnlyQuoted
    /\ StartsWith(Normalized, <<"g", "r", "e", "p", " ">>)
    /\ validation = CommandValidation(FALSE, Some(<<MSG_DANGEROUS, ";">>))

\* Task t, inside set_environment, assigns None to the client in this step
\* and so drops the client that was there.
DropsClient(t) ==
    /\ At(t, "try_lock")
    /\ At(t, "reset")'
    /\ ssh_client # None
    /\ ssh_client' = None

(***************************************************************************)
(* C30: when the AppState replaces its client by None, the client is       *)
(* dropped through disconnect(): if it had a session, the close of the     *)
(* transport is attempted and the session is given up, whether the close   *)
(* succeeds or fails; if it had none, nothing is done.  A client goes      *)
(* away in no other way.                                                   *)
(***************************************************************************)
C30_DropDisconnects ==
    [][ /\ \A t \in Tasks :
               DropsClient(t) =>
                   /\ tasks'[t].dropped # None
                   /\ tasks'[t].dropped[1].session = None
                   /\ ssh_client[1].session # None =>
                          /\ tasks'[t].dropped[1].io = <<"session_disconnect">>
                          /\ tasks'[t].dropped[1].close \in {"ok", "failed"}
                   /\ ssh_client[1].session = None =>
                          /\ tasks'[t].dropped[1].io = <<>>
                          /\ tasks'[t].dropped[1].close = "none"
        /\ (ssh_client # None /\ ssh_client' = None) =>
               \E t \in Tasks : DropsClient(t)
      ]_vars

\* set_environment has dropped a connected client and its transport was
\* closed.
C30_Witness ==
    \E t \in Tasks :
        /\ At(t, "reset")
        /\ tasks[t].dropped # None
        /\ tasks[t].dropped[1].io = <<"session_disconnect">>
        /\ tasks[t].dropped[1].close = "ok"
        /\ ssh_client = None

====
